---- MODULE Spec2Model ----
(***************************************************************************)
(* Langer: a runtime language-selection state holder.                      *)
(*                                                                         *)
(* The module models one Langer object (its fields), the browser storage   *)
(* behind the default recorder, navigator.languages, and the asynchronous  *)
(* calls in flight on the object.  Every `await` of the source is a        *)
(* suspension point: the synchronous segment before it is one step, the    *)
(* continuation after it another.  Strings are sequences of one-character  *)
(* strings so that String.split('-') is computed, not assumed.             *)
(***************************************************************************)
EXTENDS Integers, Sequences, FiniteSets, TLC

VARIABLES
  langer,             \* the fields of the Langer object under observation
  localStorage,       \* localStorage[LOCAL_STORAGE_KEY]
  navigatorLanguages, \* navigator.languages
  tasks,              \* the async calls in flight, one per slot
  outcome,            \* the call settled by the step just taken, if any
  calls               \* how many calls have been issued on the object

vars == <<langer, localStorage, navigatorLanguages, tasks, outcome, calls>>

---------------------------------------------------------------------------
(* Bounds of the model.                                                    *)

\* calls that may be in flight on the object at the same time
MaxTasks == 2
\* calls issued on one object over its life
MaxCalls == 3
\* length of the priorities list handed to presetLanguage on its own
MaxPriorities == 2
\* length of the availableLanguages list handed to presetLanguage on its own
MaxAvailable == 2

---------------------------------------------------------------------------
(* Strings.                                                                *)

en == <<"e", "n">>
ja == <<"j", "a">>
empty == <<>>
jaJP == <<"j", "a", "-", "J", "P">>
enUS == <<"e", "n", "-", "U", "S">>
dashJP == <<"-", "J", "P">>

\* JavaScript's undefined and null, of the same shape as a string
Undefined == <<"undefined">>
Null == <<"null">>
\* undefined where an array of strings is expected
NoLanguages == <<Undefined>>
\* undefined where a payload is expected
NoSays == <<"undefined", "undefined", Undefined>>

\* language keys that occur as arguments and as results of a custom preset
Keys == {en, ja, empty}

\* JavaScript truthiness of a string | null | undefined
Truthy(s) == s # Undefined /\ s # Null /\ s # empty

Range(seq) == {seq[i] : i \in 1..Len(seq)}

\* Array.prototype.includes
Includes(arr, x) == \E i \in 1..Len(arr) : arr[i] = x

\* lang.split('-')[0]
SplitFirst(lang) ==
  LET dashes == {i \in 1..Len(lang) : lang[i] = "-"}
  IN IF dashes = {} THEN lang
     ELSE SubSeq(lang, 1, (CHOOSE i \in dashes : \A j \in dashes : i <= j) - 1)

---------------------------------------------------------------------------
(* Dictionaries (the `data` argument of initialize and update).            *)

\* {} and two dictionaries that share one key
Dictionaries == {"none", "fetched", "updated"}

\* Object.keys(data), in key order
ObjectKeys(d) ==
  CASE d = "none"    -> <<>>
    [] d = "fetched" -> <<en, empty>>
    [] d = "updated" -> <<en, ja>>

\* data[language]: the payload, or undefined for a key the object lacks
Lookup(d, language) ==
  IF Includes(ObjectKeys(d), language) THEN <<"says", d, language>> ELSE NoSays

---------------------------------------------------------------------------
(* presetLanguage.                                                         *)

\* a variant that looks for an exact match of any priority before it strips
presetLanguage_exactFirst(availableLanguages, priorities) ==
  LET exact == {i \in 1..Len(priorities) :
                  Includes(availableLanguages, priorities[i])}
      stripped == {i \in 1..Len(priorities) :
                     Includes(availableLanguages, SplitFirst(priorities[i]))}
      least(S) == CHOOSE i \in S : \A j \in S : i <= j
      found == IF exact # {} THEN priorities[least(exact)]
               ELSE IF stripped # {} THEN SplitFirst(priorities[least(stripped)])
                    ELSE Undefined
  IN IF ~Truthy(found)
     THEN [throws |-> TRUE, value |-> Undefined]
     ELSE [throws |-> FALSE, value |-> found]

\* the language picked for `priorities`, or the thrown error
presetLanguage(availableLanguages, priorities) ==
  LET hit(i) == \/ Includes(availableLanguages, priorities[i])
                \/ Includes(availableLanguages, SplitFirst(priorities[i]))
      hits == {i \in 1..Len(priorities) : hit(i)}
      first == CHOOSE i \in hits : \A j \in hits : i <= j
      found == IF hits = {} THEN Undefined
               ELSE IF Includes(availableLanguages, priorities[first])
                    THEN priorities[first]
                    ELSE SplitFirst(priorities[first])
  IN IF ~Truthy(found)
     THEN [throws |-> TRUE, value |-> Undefined]
     ELSE [throws |-> FALSE, value |-> found]

---------------------------------------------------------------------------
(* The Langer object.                                                      *)

PresetChoices ==
  { <<"string", ja>>,
    <<"function", <<"presetLanguage">>>>, <<"function", <<"custom">>>> }
NoPreset == <<"undefined", Undefined>>

\* new Langer(options): the field initialisers and the constructor
Construct(preset) ==
  [ says |-> NoSays,
    data |-> "undefined",
    availableLanguages |-> NoLanguages,
    currLanguage |-> Undefined,
    recorder |-> TRUE,
    preset |-> preset,
    initialized |-> FALSE,
    disposed |-> FALSE ]

setSays(self, value) == [self EXCEPT !.says = value]
setAvailableLanguages(self, value) == [self EXCEPT !.availableLanguages = value]
setCurrLanguage(self, value) == [self EXCEPT !.currLanguage = value]
setInitialized(self) == [self EXCEPT !.initialized = TRUE]

\* the getters: whether the read throws, and the value it returns otherwise
availableLanguages(self) ==
  IF self.availableLanguages = NoLanguages
  THEN [throws |-> TRUE, value |-> NoLanguages]
  ELSE [throws |-> FALSE, value |-> self.availableLanguages]
speaking(self) ==
  IF ~Truthy(self.currLanguage)
  THEN [throws |-> TRUE, value |-> Undefined]
  ELSE [throws |-> FALSE, value |-> self.currLanguage]
says(self) ==
  IF self.says = NoSays
  THEN [throws |-> TRUE, value |-> NoSays]
  ELSE [throws |-> FALSE, value |-> self.says]

---------------------------------------------------------------------------
(* The default recorder, over localStorage.                                *)

\* recorder.get(): localStorage.getItem(LOCAL_STORAGE_KEY)
recorderGet(store) == store
\* recorder.set(lang): the storage after localStorage.setItem(LOCAL_STORAGE_KEY, lang)
recorderSet(store, lang) == lang

---------------------------------------------------------------------------
(* Synchronous segments of the async methods.  Each takes the object, the  *)
(* storage and what the environment answers in this segment (e), and       *)
(* returns the object and the storage at the next suspension point or at   *)
(* the end of the call, with the local `lang` and how the call goes on.    *)

\* the segment ends the call: it returns (result "ok") or throws `result`
Settled(self, store, lang, result) ==
  [self |-> self, store |-> store, pc |-> "done", lang |-> lang,
   err |-> "none", result |-> result]

\* the segment ends at an await; the awaited promise rejects with `err`
\* unless err is "none"
Suspended(self, store, pc, lang, err) ==
  [self |-> self, store |-> store, pc |-> pc, lang |-> lang,
   err |-> err, result |-> "pending"]

\* what the environment may answer in one segment: whether the recorder
\* call fails, and what a custom preset function resolves to (Undefined: it
\* fails)
Answers(self) ==
  [recorderFails : BOOLEAN,
   resolved : IF self.preset = <<"function", <<"custom">>>>
              THEN Keys \cup {Undefined} ELSE {Undefined}]

\* a variant that does not write the recorder
changeSays_unrecorded(self, store, language, e) ==
  Suspended(setCurrLanguage(self, language), store, "awaitSet", language,
            "none")

\* changeSays up to `await this._recorder.set(language)`
changeSays(self, store, language, e) ==
  LET s1 == setCurrLanguage(self, language)
  IN IF ~s1.recorder
     THEN Settled(s1, store, language, "TypeError")
     ELSE IF e.recorderFails
          THEN Suspended(s1, store, "awaitSet", language, "RecorderError")
          ELSE Suspended(s1, recorderSet(store, language), "awaitSet",
                         language, "none")

\* changeSays after the await: this.setSays(this._data[language])
changeSaysAfterSet(self, store, language, err) ==
  IF err # "none" THEN Settled(self, store, language, err)
  ELSE IF self.data = "undefined"
       THEN Settled(self, store, language, "TypeError")
       ELSE Settled(setSays(self, Lookup(self.data, language)), store,
                    language, "ok")

\* a variant without the membership test
resetLanguageCheck_unchecked(self, store, lang, e) ==
  IF self.availableLanguages = NoLanguages
  THEN Settled(self, store, lang, "TypeError")
  ELSE changeSays(self, store, lang, e)

\* a variant that switches to the preset language without recording it
resetLanguageCheck_unrecorded(self, store, lang, e) ==
  IF self.availableLanguages = NoLanguages
  THEN Settled(self, store, lang, "TypeError")
  ELSE IF ~Includes(self.availableLanguages, lang)
       THEN Settled(self, store, lang, "PresetUnavailableError")
       ELSE Suspended(setCurrLanguage(self, lang), store, "awaitSet", lang,
                      "none")

\* resetLanguage from the membership test on: the throw or changeSays
resetLanguageCheck(self, store, lang, e) ==
  IF self.availableLanguages = NoLanguages
  THEN Settled(self, store, lang, "TypeError")
  ELSE IF ~Includes(self.availableLanguages, lang)
       THEN Settled(self, store, lang, "PresetUnavailableError")
       ELSE changeSays(self, store, lang, e)

\* resetLanguage up to its first await
resetLanguage(self, store, nav, e) ==
  IF self.availableLanguages = NoLanguages
  THEN Settled(self, store, Undefined, "NotReadyError")
  ELSE IF self.preset[1] = "string"
       THEN resetLanguageCheck(self, store, self.preset[2], e)
       ELSE IF self.preset[1] = "undefined"
            THEN Settled(self, store, Undefined, "TypeError")
            ELSE IF self.preset[2] = <<"presetLanguage">>
                 THEN LET r == presetLanguage(self.availableLanguages, nav)
                      IN IF r.throws
                         THEN Settled(self, store, Undefined, "NoMatchError")
                         ELSE Suspended(self, store, "awaitPreset", r.value,
                                        "none")
                 ELSE IF e.resolved = Undefined
                      THEN Suspended(self, store, "awaitPreset", Undefined,
                                     "ResolverError")
                      ELSE Suspended(self, store, "awaitPreset", e.resolved,
                                     "none")

\* resetLanguage after `await this._preset(...)`
resetLanguageAfterPreset(self, store, lang, err, e) ==
  IF err # "none" THEN Settled(self, store, lang, err)
  ELSE resetLanguageCheck(self, store, lang, e)

\* a variant that asks the recorder before it looks at the current language
internalUpdateLang_recorderFirst(self, store, nav, e) ==
  IF ~self.recorder
  THEN Settled(self, store, Undefined, "TypeError")
  ELSE IF e.recorderFails
       THEN Suspended(self, store, "awaitGet", Undefined, "RecorderError")
       ELSE Suspended(self, store, "awaitGet",
                      IF Truthy(recorderGet(store)) THEN recorderGet(store)
                      ELSE self.currLanguage,
                      "none")

\* internalUpdate from `const lang = this._currLanguage || ...` on
internalUpdateLang(self, store, nav, e) ==
  IF Truthy(self.currLanguage)
  THEN changeSays(self, store, self.currLanguage, e)
  ELSE IF ~self.recorder
       THEN Settled(self, store, Undefined, "TypeError")
       ELSE IF e.recorderFails
            THEN Suspended(self, store, "awaitGet", Undefined, "RecorderError")
            ELSE Suspended(self, store, "awaitGet", recorderGet(store), "none")

\* a variant that takes the remembered language even when asked to reset
internalUpdate_ignoresReset(self, store, data, reset, nav, e) ==
  LET s1 == [self EXCEPT !.data = data]
      langs == ObjectKeys(data)
      s2 == setAvailableLanguages(s1, langs)
  IN IF Len(langs) = 0
     THEN Settled(s1, store, Undefined, "EmptyDictionaryError")
     ELSE internalUpdateLang(s2, store, nav, e)

\* a variant without the test for an empty list of keys
internalUpdate_acceptsEmpty(self, store, data, reset, nav, e) ==
  LET s2 == setAvailableLanguages([self EXCEPT !.data = data],
                                  ObjectKeys(data))
  IN IF reset
     THEN resetLanguage(s2, store, nav, e)
     ELSE internalUpdateLang(s2, store, nav, e)

\* internalUpdate up to its first await
internalUpdate(self, store, data, reset, nav, e) ==
  LET s1 == [self EXCEPT !.data = data]
      langs == ObjectKeys(data)
      s2 == setAvailableLanguages(s1, langs)
  IN IF Len(langs) = 0
     THEN Settled(s1, store, Undefined, "EmptyDictionaryError")
     ELSE IF reset
          THEN resetLanguage(s2, store, nav, e)
          ELSE internalUpdateLang(s2, store, nav, e)

\* internalUpdate after `await this._recorder.get()`
internalUpdateAfterGet(self, store, lang, err, nav, e) ==
  IF err # "none" THEN Settled(self, store, lang, err)
  ELSE IF Truthy(lang)
       THEN changeSays(self, store, lang, e)
       ELSE resetLanguage(self, store, nav, e)

\* a variant without the test of this._initialized
initialize_unguarded(self, store, data, reset, nav, e) ==
  internalUpdate(self, store, data, reset, nav, e)

\* initialize up to its first await
initialize(self, store, data, reset, nav, e) ==
  IF self.initialized
  THEN Settled(self, store, Undefined, "AlreadyInitializedError")
  ELSE internalUpdate(self, store, data, reset, nav, e)

\* initialize after `await this.internalUpdate(data, reset)`
initializeAfterInternalUpdate(self, store, lang) ==
  Settled(setInitialized(self), store, lang, "ok")

\* update up to its first await
update(self, store, data, reset, nav, e) ==
  IF ~self.initialized \/ self.disposed
  THEN Settled(self, store, Undefined, "NotReadyError")
  ELSE internalUpdate(self, store, data, reset, nav, e)

\* a variant without the membership test
speak_unchecked(self, store, language, e) ==
  IF self.availableLanguages = NoLanguages
  THEN Settled(self, store, language, "NotReadyError")
  ELSE changeSays(self, store, language, e)

\* speak up to its first await
speak(self, store, language, e) ==
  IF self.availableLanguages = NoLanguages
  THEN Settled(self, store, language, "NotReadyError")
  ELSE IF ~Includes(self.availableLanguages, language)
       THEN Settled(self, store, language, "LanguageUnavailableError")
       ELSE changeSays(self, store, language, e)

\* a variant that also clears this._initialized
dispose_clearsInitialized(self, store) ==
  IF self.disposed
  THEN Settled(self, store, Undefined, "AlreadyDisposedError")
  ELSE Settled([Construct(NoPreset) EXCEPT !.recorder = FALSE,
                                           !.disposed = TRUE],
               store, Undefined, "ok")

\* dispose (synchronous)
dispose(self, store) ==
  IF self.disposed
  THEN Settled(self, store, Undefined, "AlreadyDisposedError")
  ELSE Settled(
         [ setCurrLanguage(
             setAvailableLanguages(
               [setSays([self EXCEPT !.recorder = FALSE, !.preset = NoPreset],
                        NoSays)
                  EXCEPT !.data = "undefined"],
               NoLanguages),
             Undefined)
           EXCEPT !.disposed = TRUE ],
         store, Undefined, "ok")

---------------------------------------------------------------------------
(* The calls in flight.                                                    *)

Slots == 1..MaxTasks

Quiet == \A t \in Slots : tasks[t].pc = "idle"

\* a call as issued: its arguments, its local `lang`, and, for a call
\* issued while no other is in flight, the object and the storage it found;
\* `after` is the key a speak on the previous, initialized object has just
\* recorded, for the first call on a new object
Call(op, data, reset, lang) ==
  [op |-> op, pc |-> "called", lang |-> lang, err |-> "none",
   alone |-> Quiet,
   data |-> IF Quiet THEN data ELSE "undefined",
   reset |-> Quiet /\ reset,
   pre |-> IF Quiet THEN langer ELSE Construct(NoPreset),
   preStore |-> IF Quiet THEN localStorage ELSE Undefined,
   after |-> IF Quiet /\ outcome.op = "new" THEN outcome.after ELSE Undefined]

Idle ==
  [op |-> "none", pc |-> "idle", lang |-> Undefined, err |-> "none",
   alone |-> FALSE, data |-> "undefined", reset |-> FALSE,
   pre |-> Construct(NoPreset), preStore |-> Undefined, after |-> Undefined]

\* a call in flight that another call overlaps is no longer alone
Overlapped(task) ==
  IF task.pc = "idle" THEN task
  ELSE [task EXCEPT !.alone = FALSE, !.data = "undefined", !.reset = FALSE,
                    !.pre = Construct(NoPreset), !.preStore = Undefined,
                    !.after = Undefined]

NoOutcome ==
  [op |-> "none", lang |-> Undefined, result |-> "none", alone |-> FALSE,
   data |-> "undefined", reset |-> FALSE, pre |-> Construct(NoPreset),
   preStore |-> Undefined, after |-> Undefined]

\* the call settles: it returns (result "ok") or throws
Settles(call, r) ==
  [op |-> call.op, lang |-> r.lang, result |-> r.result,
   alone |-> call.alone, data |-> call.data, reset |-> call.reset,
   pre |-> call.pre, preStore |-> call.preStore, after |-> call.after]

\* `await this.internalUpdate(data, reset)` in initialize: when internalUpdate
\* returns, initialize resumes in a later turn
AwaitInternalUpdate(call, r) ==
  IF call.op = "initialize" /\ r.pc = "done" /\ r.result = "ok"
  THEN Suspended(r.self, r.store, "return", r.lang, "none")
  ELSE r

\* the first free slot takes the next call
FreeSlot(t) ==
  /\ calls < MaxCalls
  /\ tasks[t].pc = "idle"
  /\ \A u \in 1..(t - 1) : tasks[u].pc # "idle"

\* the effect of one segment of the call in slot t
Step(t, call, r) ==
  LET others == IF call.pc = "called"
                THEN [u \in Slots |-> Overlapped(tasks[u])] ELSE tasks
  IN /\ langer' = r.self
     /\ localStorage' = r.store
     /\ IF r.pc = "done"
        THEN /\ tasks' = [others EXCEPT ![t] = Idle]
             /\ outcome' = Settles(call, r)
        ELSE /\ tasks' = [others EXCEPT ![t] =
                            [call EXCEPT !.pc = r.pc, !.lang = r.lang,
                                         !.err = r.err]]
             /\ outcome' = NoOutcome
     /\ calls' = IF call.pc = "called" THEN calls + 1 ELSE calls
     /\ UNCHANGED navigatorLanguages

---------------------------------------------------------------------------
(* Initial states and actions.                                             *)

StoredChoices == {Null, ja}
NavigatorChoices == { <<jaJP>> }

Init ==
  /\ langer \in {Construct(p) : p \in PresetChoices}
  /\ localStorage \in StoredChoices
  /\ navigatorLanguages \in NavigatorChoices
  /\ tasks = [t \in Slots |-> Idle]
  /\ outcome = NoOutcome
  /\ calls = 0

\* new Langer(options), once the calls on the previous object have settled
New ==
  /\ Quiet
  /\ \E p \in PresetChoices : langer' = Construct(p)
  /\ outcome' = [NoOutcome EXCEPT
                    !.op = "new", !.result = "ok",
                    !.after = IF /\ outcome.op = "speak"
                                 /\ outcome.result = "ok"
                                 /\ outcome.pre.initialized
                              THEN outcome.lang ELSE Undefined]
  /\ calls' = 0
  /\ UNCHANGED <<localStorage, navigatorLanguages, tasks>>

Initialize ==
  \E t \in Slots, data \in Dictionaries, reset \in BOOLEAN,
     e \in Answers(langer) :
    /\ FreeSlot(t)
    /\ LET call == Call("initialize", data, reset, Undefined)
       IN Step(t, call,
               AwaitInternalUpdate(call,
                 initialize(langer, localStorage, data, reset,
                            navigatorLanguages, e)))

Update ==
  \E t \in Slots, data \in Dictionaries, reset \in BOOLEAN,
     e \in Answers(langer) :
    /\ FreeSlot(t)
    /\ Step(t, Call("update", data, reset, Undefined),
            update(langer, localStorage, data, reset, navigatorLanguages, e))

Speak ==
  \E t \in Slots, language \in Keys, e \in Answers(langer) :
    /\ FreeSlot(t)
    /\ Step(t, Call("speak", "undefined", FALSE, language),
            speak(langer, localStorage, language, e))

ResetLanguage ==
  \E t \in Slots, e \in Answers(langer) :
    /\ FreeSlot(t)
    /\ Step(t, Call("resetLanguage", "undefined", FALSE, Undefined),
            resetLanguage(langer, localStorage, navigatorLanguages, e))

Dispose ==
  LET call == Call("dispose", "undefined", FALSE, Undefined)
      r == dispose(langer, localStorage)
  IN /\ calls < MaxCalls
     /\ langer' = r.self
     /\ outcome' = Settles(call, r)
     /\ tasks' = [u \in Slots |-> Overlapped(tasks[u])]
     /\ calls' = calls + 1
     /\ UNCHANGED <<localStorage, navigatorLanguages>>

\* the promise of this._recorder.get() settles
RecorderGetSettles ==
  \E t \in Slots, e \in Answers(langer) :
    /\ tasks[t].pc = "awaitGet"
    /\ Step(t, tasks[t],
            AwaitInternalUpdate(tasks[t],
              internalUpdateAfterGet(langer, localStorage, tasks[t].lang,
                                     tasks[t].err, navigatorLanguages, e)))

\* the promise of this._preset(...) settles
PresetSettles ==
  \E t \in Slots, e \in Answers(langer) :
    /\ tasks[t].pc = "awaitPreset"
    /\ Step(t, tasks[t],
            AwaitInternalUpdate(tasks[t],
              resetLanguageAfterPreset(langer, localStorage, tasks[t].lang,
                                       tasks[t].err, e)))

\* the promise of this._recorder.set(language) settles
RecorderSetSettles ==
  \E t \in Slots :
    /\ tasks[t].pc = "awaitSet"
    /\ Step(t, tasks[t],
            AwaitInternalUpdate(tasks[t],
              changeSaysAfterSet(langer, localStorage, tasks[t].lang,
                                 tasks[t].err)))

\* the promise of this.internalUpdate(data, reset) settles in initialize
InternalUpdateSettles ==
  \E t \in Slots :
    /\ tasks[t].pc = "return"
    /\ Step(t, tasks[t],
            initializeAfterInternalUpdate(langer, localStorage, tasks[t].lang))

Next ==
  \/ Initialize
  \/ Update
  \/ Speak
  \/ ResetLanguage
  \/ Dispose
  \/ New
  \/ RecorderGetSettles
  \/ PresetSettles
  \/ RecorderSetSettles
  \/ InternalUpdateSettles

\* any interleaving of calls and continuations
Spec == Init /\ [][Next]_vars

\* one caller that awaits each call before issuing the next
SeqNext ==
  \/ Quiet /\ Initialize
  \/ Quiet /\ Update
  \/ Quiet /\ Speak
  \/ Quiet /\ ResetLanguage
  \/ Quiet /\ Dispose
  \/ New
  \/ RecorderGetSettles
  \/ PresetSettles
  \/ RecorderSetSettles
  \/ InternalUpdateSettles

SeqSpec == Init /\ [][SeqNext]_vars

---------------------------------------------------------------------------
(* presetLanguage on its own: the exported function, called with any list  *)
(* of available languages and any list of priorities.                      *)

\* tags and keys that occur in the two lists
PriorityChoices == {en, ja, empty, jaJP, enUS, dashJP}
AvailableChoices == {en, ja, empty, jaJP}

\* the arrays over S of length at most n
Arrays(S, n) == UNION {[1..k -> S] : k \in 0..n}

\* Object.keys never repeats a key
Distinct(arr) == \A i, j \in 1..Len(arr) : arr[i] = arr[j] => i = j

\* an object whose availableLanguages internalUpdate has set, with the
\* default preset, and navigator.languages
PresetInit ==
  /\ \E available \in {a \in Arrays(AvailableChoices, MaxAvailable) : Distinct(a)} :
       langer = setAvailableLanguages(
                  Construct(<<"function", <<"presetLanguage">>>>), available)
  /\ navigatorLanguages \in Arrays(PriorityChoices, MaxPriorities)
  /\ localStorage = Null
  /\ tasks = [t \in Slots |-> Idle]
  /\ outcome = NoOutcome
  /\ calls = 0

\* presetLanguage(this._availableLanguages, navigator.languages)
PresetLanguage ==
  LET r == presetLanguage(langer.availableLanguages, navigatorLanguages)
  IN /\ outcome' = [NoOutcome EXCEPT
                      !.op = "presetLanguage",
                      !.result = IF r.throws THEN "NoMatchError" ELSE "ok",
                      !.lang = r.value]
     /\ UNCHANGED <<langer, localStorage, navigatorLanguages, tasks, calls>>

PresetSpec == PresetInit /\ [][PresetLanguage]_vars

---------------------------------------------------------------------------
(* Claims.  `outcome` holds the call the last step settled; outcome.alone  *)
(* says that no other call was issued or in flight while it ran, and then  *)
(* outcome.pre and outcome.preStore are the object and the storage the     *)
(* call found.                                                             *)

Switching == {"initialize", "update", "speak", "resetLanguage"}

\* C1: after every successful initialize, update, speak or resetLanguage the
\* current language is one of the available languages.
C1_CurrentLanguageAvailable ==
  (outcome.op \in Switching /\ outcome.alone /\ outcome.result = "ok")
    => Includes(langer.availableLanguages, langer.currLanguage)

\* C2: in every state of an initialized object in which an observer can
\* read both speaking and says,
\* says is the payload for speaking in the dictionary it was read from:
\* speaking never holds a new key while says holds the payload of another,
\* also while a call is suspended.
C2_SaysFollowsSpeaking ==
  ( /\ langer.initialized /\ ~langer.disposed
    /\ ~speaking(langer).throws /\ ~says(langer).throws )
    => says(langer).value = Lookup(says(langer).value[2], speaking(langer).value)

\* C3: an initialize that fails on a newly constructed object, for any
\* cause, leaves it as constructed: not initialized, and dictionary,
\* available languages, current language and says all absent.
C3_FailedInitializeLeavesNothing ==
  ( /\ outcome.op = "initialize" /\ outcome.alone
    /\ outcome.result # "ok"
    /\ outcome.pre = Construct(outcome.pre.preset) )
    => langer = outcome.pre

\* C4: while the object is not initialized, or is disposed, each of the
\* three accessors throws.
C4_AccessorsThrowUnlessReady ==
  (~langer.initialized \/ langer.disposed)
    => /\ availableLanguages(langer).throws
       /\ speaking(langer).throws
       /\ says(langer).throws

\* C5: a call issued after dispose() has completed is rejected: initialize,
\* update, speak and resetLanguage with NotReadyError, dispose with
\* AlreadyDisposedError.
C5_DisposedRejectsEveryCall ==
  (outcome.alone /\ outcome.pre.disposed)
    => /\ outcome.op \in Switching => outcome.result = "NotReadyError"
       /\ outcome.op = "dispose" => outcome.result = "AlreadyDisposedError"

\* C6: on one object, initialized never goes back to false and disposed
\* never goes back to false, whatever calls are issued and however their
\* continuations interleave.
C6_LifecycleMonotone ==
  [][ outcome'.op # "new"
        => /\ langer.initialized => langer'.initialized
           /\ langer.disposed => langer'.disposed ]_vars

\* an initialized and disposed object on which a further call has settled
C6_Witness ==
  /\ langer.initialized /\ langer.disposed
  /\ outcome.op \in Switching
  /\ outcome.alone /\ outcome.pre.initialized /\ outcome.pre.disposed

C9_UpdateLeavesMissingLanguage ==
  ( /\ outcome.op = "update" /\ outcome.alone /\ outcome.result = "ok"
    /\ ~outcome.reset
    /\ ~speaking(outcome.pre).throws
    /\ ~Includes(ObjectKeys(outcome.data), speaking(outcome.pre).value) )
    => /\ langer.currLanguage # outcome.pre.currLanguage
       /\ Includes(ObjectKeys(outcome.data), langer.currLanguage)
       /\ langer.says = <<"says", outcome.data, langer.currLanguage>>

\* C10: after speak(k) has succeeded on one object, initialize without
\* forceReset on a new object over the same storage, with a dictionary that
\* has the key k, completes with speaking k and says the payload for k
\* (unless the recorder itself fails).
C10_RecorderRoundTrip ==
  ( /\ outcome.op = "initialize" /\ outcome.alone
    /\ ~outcome.reset
    /\ outcome.after \in Keys
    /\ Includes(ObjectKeys(outcome.data), outcome.after)
    /\ outcome.result # "RecorderError" )
    => /\ outcome.result = "ok"
       /\ langer.currLanguage = outcome.after
       /\ langer.says = <<"says", outcome.data, outcome.after>>

\* the key the preset of the call's object chooses among `available`: the
\* fixed key, presetLanguage's pick, or what the custom function resolved to
PresetKey(o, available) ==
  IF o.pre.preset[1] = "string" THEN o.pre.preset[2]
  ELSE IF o.pre.preset[2] = <<"presetLanguage">>
       THEN presetLanguage(available, navigatorLanguages).value
       ELSE o.lang

\* C11: initialize(dictionary, forceReset = true) never waits for
\* Recorder.get, and when it succeeds the current language is the key the
\* preset chose, whatever the recorder held before the call.
C11_ResetIgnoresRecorder ==
  /\ \A t \in Slots :
       (tasks[t].op = "initialize" /\ tasks[t].alone /\ tasks[t].reset)
         => tasks[t].pc # "awaitGet"
  /\ ( /\ outcome.op = "initialize" /\ outcome.alone /\ outcome.reset
       /\ outcome.result = "ok" )
       => /\ langer.currLanguage = PresetKey(outcome, ObjectKeys(outcome.data))
          /\ langer.says = Lookup(outcome.data, langer.currLanguage)

\* an initialize with forceReset has succeeded on another language than the
\* recorder held
C11_Witness ==
  /\ outcome.op = "initialize" /\ outcome.alone /\ outcome.reset
  /\ outcome.result = "ok"
  /\ outcome.preStore = ja
  /\ speaking(langer).value = en
  /\ langer.initialized

\* C12: speak(k) on an initialized, not disposed object, with k not among
\* the available languages, throws LanguageUnavailableError at once and
\* changes neither the object nor the recorded language; only a speak of an
\* available key goes on to Recorder.set.
C12_UnavailableSpeakRejected ==
  [][ (Speak /\ langer.initialized /\ ~langer.disposed)
        => \/ /\ outcome'.op = "speak"
              /\ outcome'.result = "LanguageUnavailableError"
              /\ ~Includes(langer.availableLanguages, outcome'.lang)
              /\ UNCHANGED <<langer, localStorage>>
           \/ \E t \in Slots :
                /\ tasks[t].pc = "idle"
                /\ tasks'[t].op = "speak" /\ tasks'[t].pc = "awaitSet"
                /\ Includes(langer.availableLanguages, tasks'[t].lang) ]_vars

\* a speak of an unavailable key has just been rejected on an object that
\* speaks another language
C12_Witness ==
  /\ outcome.op = "speak" /\ outcome.result = "LanguageUnavailableError"
  /\ outcome.alone /\ outcome.lang = ja
  /\ langer.initialized /\ ~langer.disposed
  /\ langer = outcome.pre
  /\ speaking(langer).value = en /\ ~says(langer).throws

\* C13: update, speak or resetLanguage called on an object that is not
\* initialized throws NotReadyError and changes neither the object nor the
\* recorded language.
C13_UninitializedRejectsCalls ==
  ( /\ outcome.op \in {"update", "speak", "resetLanguage"}
    /\ outcome.alone /\ ~outcome.pre.initialized )
    => /\ outcome.result = "NotReadyError"
       /\ langer = outcome.pre
       /\ localStorage = outcome.preStore

\* the tag up to its first '-'
RECURSIVE UpToDash(_)
UpToDash(tag) ==
  IF tag = <<>> \/ Head(tag) = "-" THEN <<>>
  ELSE <<Head(tag)>> \o UpToDash(Tail(tag))

\* the priority matches an available key, as it is or stripped
Matches(available, tag) ==
  tag \in Range(available) \/ UpToDash(tag) \in Range(available)

C15_NoMatchExactlyWhenNothingMatches ==
  outcome.op = "presetLanguage"
    => ( outcome.result = "NoMatchError"
           <=> \A i \in 1..Len(navigatorLanguages) :
                 ~Matches(langer.availableLanguages, navigatorLanguages[i]) )

\* C16: resetLanguage on an initialized object whose preset chooses a key
\* that is not an available language throws PresetUnavailableError and
\* leaves the object (current language, says) and the recorded language as
\* they were.
C16_UnavailablePresetRejected ==
  ( /\ outcome.op = "resetLanguage" /\ outcome.alone
    /\ outcome.pre.initialized /\ ~outcome.pre.disposed
    /\ PresetKey(outcome, outcome.pre.availableLanguages) # Undefined
    /\ ~Includes(outcome.pre.availableLanguages,
                 PresetKey(outcome, outcome.pre.availableLanguages)) )
    => /\ outcome.result = "PresetUnavailableError"
       /\ langer = outcome.pre
       /\ localStorage = outcome.preStore

\* resetLanguage has just been rejected on an object that speaks a language
C16_Witness ==
  /\ outcome.op = "resetLanguage" /\ outcome.alone
  /\ outcome.result = "PresetUnavailableError"
  /\ outcome.pre.initialized /\ ~outcome.pre.disposed
  /\ speaking(langer).value = en /\ ~says(langer).throws
  /\ localStorage = en

\* C17: a resetLanguage that succeeds on an initialized object returns the
\* key the preset chose, an available language, and leaves it as the
\* current language, its payload as says and the key in the recorder,
\* whatever language was current before.
C17_ResetSwitchesToPreset ==
  ( /\ outcome.op = "resetLanguage" /\ outcome.alone
    /\ outcome.result = "ok"
    /\ outcome.pre.initialized /\ ~outcome.pre.disposed )
    => LET r == PresetKey(outcome, outcome.pre.availableLanguages)
       IN /\ outcome.lang = r
          /\ Includes(langer.availableLanguages, r)
          /\ langer.currLanguage = r
          /\ langer.says = Lookup(langer.data, r)
          /\ localStorage = r

\* resetLanguage has moved an object that spoke en, with en recorded, to ja
C17_Witness ==
  /\ outcome.op = "resetLanguage" /\ outcome.alone
  /\ outcome.result = "ok"
  /\ outcome.pre.initialized /\ ~outcome.pre.disposed
  /\ speaking(outcome.pre).value = en /\ outcome.preStore = en
  /\ speaking(langer).value = ja
  /\ says(langer).value = <<"says", "updated", ja>>

\* C18: when Recorder.set fails during speak(k) or resetLanguage, with k an
\* available language, the call fails with the recorder's error and the
\* object has switched all the same: the current language is k and says is
\* the payload for k.
C18_FailedWriteKeepsSwitch ==
  ( /\ outcome.op \in {"speak", "resetLanguage"} /\ outcome.alone
    /\ outcome.pre.initialized /\ ~outcome.pre.disposed
    /\ outcome.result = "RecorderError" )
    => /\ Includes(langer.availableLanguages, outcome.lang)
       /\ langer.currLanguage = outcome.lang
       /\ langer.says = Lookup(langer.data, outcome.lang)

\* C19: initialize on an object that is not initialized, and update on an
\* initialized object, given a dictionary without keys, throw
\* EmptyDictionaryError; the failed initialize leaves initialized false, and
\* an initialize that later succeeds on that object, with a dictionary that
\* has keys, leaves it initialized over that dictionary.
C19_EmptyDictionaryRejected ==
  /\ ( /\ outcome.op = "initialize" /\ outcome.alone
       /\ outcome.data = "none" /\ ~outcome.pre.initialized )
       => /\ outcome.result = "EmptyDictionaryError"
          /\ ~langer.initialized
  /\ ( /\ outcome.op = "update" /\ outcome.alone
       /\ outcome.data = "none"
       /\ outcome.pre.initialized /\ ~outcome.pre.disposed )
       => outcome.result = "EmptyDictionaryError"
  /\ ( /\ outcome.op = "initialize" /\ outcome.alone
       /\ outcome.pre.data = "none" /\ ~outcome.pre.initialized
       /\ outcome.result = "ok" )
       => /\ langer.initialized
          /\ langer.data = outcome.data /\ outcome.data # "none"
          /\ langer.availableLanguages = ObjectKeys(outcome.data)

\* an initialize has succeeded on an object on which initialize({}) had
\* failed before
C19_Witness ==
  /\ outcome.op = "initialize" /\ outcome.alone
  /\ outcome.result = "ok"
  /\ outcome.pre.data = "none" /\ ~outcome.pre.initialized
  /\ ~outcome.pre.disposed
  /\ langer.initialized
  /\ ~speaking(langer).throws /\ ~says(langer).throws

\* C20: after any sequence of calls, each awaited before the next, an
\* object that is initialized and not disposed answers all three accessors:
\* availableLanguages, speaking and says return a value.
C20_InitializedIsQueryable ==
  (Quiet /\ langer.initialized /\ ~langer.disposed)
    => /\ ~availableLanguages(langer).throws
       /\ ~speaking(langer).throws
       /\ ~says(langer).throws

\* C21: whenever availableLanguages is present on an initialized object it
\* is not empty and is the list of keys of the dictionary the object holds,
\* also after an update that failed.
C21_AvailableLanguagesOfHeldDictionary ==
  (langer.initialized /\ ~availableLanguages(langer).throws)
    => /\ Len(langer.availableLanguages) > 0
       /\ langer.data \in Dictionaries
       /\ langer.availableLanguages = ObjectKeys(langer.data)

\* dictionary, available languages, current language and says are absent
Released(self) ==
  /\ self.data = "undefined"
  /\ self.availableLanguages = NoLanguages
  /\ self.currLanguage = Undefined
  /\ self.says = NoSays

\* C22: what dispose has released stays released: when a call that was
\* suspended at the recorder or at the preset function resumes on a
\* disposed object, dictionary, available languages, current language and
\* says are still absent afterwards.
C22_DisposeIsFinal ==
  [][ ( /\ langer.disposed /\ Released(langer)
        /\ \/ RecorderGetSettles
           \/ PresetSettles
           \/ RecorderSetSettles
           \/ InternalUpdateSettles )
        => Released(langer') ]_vars

\* C23: when two speak calls overlap on an initialized object and both
\* succeed, the object ends on the key of one of them with the payload of
\* that same key, never on the key of one with the payload of the other.
C23_OverlappingSpeaksEndOnOneCall ==
  [][ ( /\ langer.initialized /\ ~langer.disposed
        /\ outcome.op = "speak" /\ outcome.result = "ok"
        /\ RecorderSetSettles
        /\ outcome'.op = "speak" /\ outcome'.result = "ok"
        /\ \A t \in Slots : tasks'[t].pc = "idle" )
        => \/ /\ langer'.currLanguage = outcome.lang
              /\ langer'.says = Lookup(langer'.data, outcome.lang)
           \/ /\ langer'.currLanguage = outcome'.lang
              /\ langer'.says = Lookup(langer'.data, outcome'.lang) ]_vars

\* C24: an update that fails on an initialized object, for an empty
\* dictionary, a preset key the new dictionary lacks or a presetLanguage
\* that finds no match, leaves the object as it was: dictionary, available
\* languages, current language and says.
C24_FailedUpdateChangesNothing ==
  ( /\ outcome.op = "update" /\ outcome.alone
    /\ outcome.pre.initialized /\ ~outcome.pre.disposed
    /\ outcome.result \in {"EmptyDictionaryError", "PresetUnavailableError",
                           "NoMatchError"} )
    => langer = outcome.pre

\* C25: on one object at most one initialize completes successfully: once
\* an initialize has returned, an initialize that was issued while it was
\* suspended does not return successfully too.
C25_OneInitializeSucceeds ==
  [][ ( /\ outcome.op = "initialize" /\ outcome.result = "ok"
        /\ InternalUpdateSettles )
        => outcome'.result # "ok" ]_vars

\* C26: with calls that do not overlap, after every successful initialize,
\* update, speak or resetLanguage the recorder holds the current language,
\* and whatever a step writes to the recorder is the current language.
C26_RecorderHoldsCurrentLanguage ==
  [][ /\ ( /\ outcome'.op \in Switching /\ outcome'.alone
           /\ outcome'.result = "ok" )
           => localStorage' = langer'.currLanguage
      /\ localStorage' # localStorage
           => localStorage' = langer'.currLanguage ]_vars

\* an update with forceReset has moved the object and the recorder from en
\* to ja
C26_Witness ==
  /\ outcome.op = "update" /\ outcome.alone /\ outcome.result = "ok"
  /\ outcome.pre.currLanguage = en /\ outcome.preStore = en
  /\ langer.currLanguage = ja /\ localStorage = ja
  /\ says(langer).value = <<"says", "updated", ja>>

====
